---- MODULE Spec2Model ----
(***************************************************************************)
(* Model of the statistics backend: the routes of app/routes/stats.py,     *)
(* players.py, games.py and auth.py with their schemas.                    *)
(*                                                                         *)
(* Every request handler is a process: each `await` on the database is one *)
(* atomic step that reads or writes the committed tables, and the Python   *)
(* code between two awaits belongs to the step of the first of them.       *)
(* Sessions are per request (app/db.py), so concurrent handlers share      *)
(* nothing but the tables.                                                 *)
(*                                                                         *)
(* PlayerStats rows carry the player_id and game_id attributes that the    *)
(* handlers pass to the constructor and filter on (routes/stats.py:55,     *)
(* 109-110, 347-348, 353).  Neither stats table declares a uniqueness      *)
(* constraint: both are commented out (schemas/stats.py:43, 93).           *)
(***************************************************************************)
EXTENDS Integers, Sequences, FiniteSets, TLC

(***************************************************************************)
(* Bounds of the model.                                                    *)
(***************************************************************************)
MaxPlayerId == 1    \* the player id sequence hands out 1..MaxPlayerId
MaxGameId == 1      \* the game id sequence hands out 1..MaxGameId
MaxStatsId == 2     \* the stats id sequences hand out 1..MaxStatsId
MaxSupplied == 1    \* number of fields a request body supplies
MaxValue == 1       \* request bodies hold values MinValue..MaxValue
MinValue == 0 - 1
MaxUserId == 3      \* the user id sequence hands out 1..MaxUserId
MaxClock == 1       \* the wall clock runs 0..MaxClock

Procs == {1, 2}     \* request handlers in flight

\* Python's None / SQL NULL in an integer or timestamp position.
None == 0 - 9
\* An attribute that was never set on an ORM instance.
Unset == "unset"

Seasons == {"2022-2023", "2023-2024"}
\* Signup and login inputs.
Emails == {"test@example.com", "other@example.com"}
Passwords == {"testpassword", "wrongpassword"}
\* Player names: the one create_player is called with, and the ones
\* update_player renames to.
CreateNames == {"Luka Doncic"}
UpdateNames == {"Luka Doncic", "Kyrie Irving"}
Credentials == {"none", "invalid", "valid"}

(***************************************************************************)
(* Schemas (app/schemas/stats.py).                                         *)
(***************************************************************************)
\* StatsBase: the metrics every stats table has.
StatsBase == {"points", "minutes_played"}

\* PlayerStats: the metric columns of the table.
PlayerStatsMetrics ==
    StatsBase \cup
    {"assists", "rebounds", "steals", "blocks",
     "field_goals_made", "field_goals_attempted",
     "three_points_made", "three_points_attempted",
     "free_throws_made", "free_throws_attempted",
     "turnovers", "personal_fouls", "plus_minus"}

PlayerStatsColumns ==
    {"id", "player_id", "game_id", "stats_type", "created_at", "updated_at"}
        \cup PlayerStatsMetrics

\* PlayerStatsUpdate: the fields the partial-update schema declares.
PlayerStatsUpdate ==
    {"assists", "rebounds", "steals", "blocks",
     "field_goals_made", "field_goals_attempted",
     "three_points_made", "three_points_attempted",
     "free_throws_made", "free_throws_attempted",
     "turnovers", "personal_fouls", "plus_minus"}

\* GameStats: the metric columns of the table (quarter_scores is a list).
GameStatsMetrics == StatsBase \cup {"team_points", "opponent_points"}

GameStatsColumns ==
    {"id", "game_id", "stats_type", "created_at", "updated_at",
     "quarter_scores"} \cup GameStatsMetrics

\* GameStatsUpdate: the fields the partial-update schema declares.
GameStatsUpdate ==
    {"id", "created_at", "updated_at", "team_points", "opponent_points",
     "quarter_scores"}

\* The declared default of a metric column (every one of them is 0).
Default(f) == 0

\* Columns declared Optional: the only ones that accept NULL.
Nullable == {"updated_at"}

(***************************************************************************)
(* Request bodies: a JSON object is a function from the supplied field     *)
(* names to values; a field that is not in the domain was omitted.         *)
(***************************************************************************)
Values == MinValue..MaxValue

Bodies(F) ==
    UNION {[S -> Values] : S \in {T \in SUBSET F : Cardinality(T) <= MaxSupplied}}

\* The request bodies each specification enumerates.
CreateBodies == Bodies({"points"})
UpdateBodies == Bodies({"points", "assists"})
UpsertBodies == Bodies({"assists", "rebounds"})
RaceBodies == {b \in UpsertBodies : \A f \in DOMAIN b : b[f] = MaxValue}
ShotBodies == Bodies({"field_goals_made", "personal_fouls"})
GameCreateBodies == Bodies({"team_points", "opponent_points"})
GameUpdateBodies == Bodies({"id", "team_points", "opponent_points", "quarter_scores"})

\* Field constraints of PlayerStatsCreate (ge / le of each Field).
PlayerStatsCreateValid(body) ==
    \A f \in DOMAIN body :
        /\ f \in PlayerStatsMetrics
        /\ body[f] # None
        /\ (f # "plus_minus" => body[f] >= 0)
        /\ (f = "minutes_played" => body[f] <= 48)
        /\ (f = "personal_fouls" => body[f] <= 6)

\* PlayerStatsCreateDict that drops the body: every field at its default.
PlayerStatsCreateDictDefaults(body) ==
    [f \in PlayerStatsMetrics \cup {"stats_type"} |->
        IF f = "stats_type" THEN "player" ELSE Default(f)]

\* PlayerStatsCreate(**body).dict(): every field, defaults filled in.
PlayerStatsCreateDict(body) ==
    [f \in PlayerStatsMetrics \cup {"stats_type"} |->
        IF f = "stats_type" THEN "player"
        ELSE IF f \in DOMAIN body THEN body[f] ELSE Default(f)]

\* PlayerStatsRead inherits the field constraints of PlayerStatsCreate: a
\* returned row passes the response model when its metrics satisfy them.
PlayerStatsRead(row) ==
    PlayerStatsCreateValid([f \in PlayerStatsMetrics |-> row[f]])

\* GameStatsRead inherits the field constraints of GameStatsCreate.
GameStatsRead(row) ==
    \A f \in GameStatsMetrics :
        /\ row[f] >= 0
        /\ (f = "minutes_played" => row[f] <= 48)

\* GameStatsWithPlayers: the fields of the response model that have no
\* default (id, created_at, updated_at come from GameStatsRead).
GameStatsWithPlayers ==
    {"id", "created_at", "updated_at", "game", "game_stats", "player"}

\* response_model of each route: the returned object is validated against
\* it after the handler returns, and a failure is answered with 500.
ResponseValidationError(op, row) ==
    CASE op \in {"create_player_stats_for_game", "get_player_stats_for_game",
                 "update_player_stats", "update_player_stats_for_game"} ->
             ~PlayerStatsRead(row)
      [] op \in {"create_game_stats", "update_game_stats"} ->
             ~GameStatsRead(row)
      [] op = "get_full_game_stats" ->
             ~(GameStatsWithPlayers \subseteq DOMAIN row)
      [] OTHER -> FALSE

\* Model.dict(): every declared field, None where the body omitted it.
Dict(schema, body) ==
    [f \in schema |-> IF f \in DOMAIN body THEN body[f] ELSE None]

\* Model.dict(exclude_unset=True): only the declared fields the body supplied.
DictExcludeUnset(schema, body) ==
    [f \in schema \cap DOMAIN body |-> body[f]]

(***************************************************************************)
(* State.                                                                  *)
(***************************************************************************)
VARIABLES
    user,           \* User table: set of rows
    player,         \* Player table: set of rows
    game,           \* Game table: set of rows
    player_stats,   \* PlayerStats table: set of rows
    game_stats,     \* GameStats table: set of rows
    seq,            \* next value of each table's id sequence
    clock,          \* datetime.utcnow()
    req,            \* per handler: the request in flight and its position
    resp,           \* the response the last step sent, if it sent one
    last            \* history: the upsert call answered last, if recorded

vars == <<user, player, game, player_stats, game_stats, seq, clock, req, resp, last>>

NoRow == [id |-> None]
NoBody == [f \in {} |-> 0]

Idle ==
    [op |-> "idle", pc |-> "idle", cred |-> "none", player_id |-> None, game_id |-> None,
     stats_id |-> None, season |-> "", body |-> NoBody, row |-> NoRow,
     loaded |-> NoRow, found |-> FALSE, committed |-> FALSE]

NoResp ==
    [proc |-> 0, op |-> "none", pc |-> "idle", cred |-> "none", status |-> 0,
     player_id |-> None, game_id |-> None,
     stats_id |-> None, season |-> "", body |-> NoBody, row |-> NoRow,
     loaded |-> NoRow, found |-> FALSE, committed |-> FALSE]

\* The history is either switched off or holds the previous call.
NoHistory == [on |-> FALSE]
NoCall ==
    [on |-> TRUE, op |-> "none", status |-> 0, player_id |-> None,
     game_id |-> None, body |-> NoBody]

PlayerIds == 1..MaxPlayerId
GameIds == 1..MaxGameId
StatsIds == 1..MaxStatsId

\* Get without the miss: a lookup that never reports an absent row.
GetNeverMisses(table, id) ==
    IF \E r \in table : r.id = id
    THEN CHOOSE r \in table : r.id = id
    ELSE [id |-> id]

\* db.get(Table, id): the row with that primary key, or NoRow.
Get(table, id) ==
    IF \E r \in table : r.id = id
    THEN CHOOSE r \in table : r.id = id
    ELSE NoRow

Init ==
    /\ user = {}
    /\ player = {}
    /\ game = {}
    /\ player_stats = {}
    /\ game_stats = {}
    /\ seq = [user |-> 1, player |-> 1, game |-> 1, player_stats |-> 1,
             game_stats |-> 1]
    /\ clock = 0
    /\ req = [p \in Procs |-> Idle]
    /\ resp = NoResp
    /\ last = NoHistory

\* A step that sends no response.
Silent == resp' = NoResp /\ UNCHANGED last

\* The wall clock advances.
Tick ==
    /\ clock < MaxClock
    /\ clock' = clock + 1
    /\ UNCHANGED <<user, player, game, player_stats, game_stats, seq, req>>
    /\ Silent

\* A handler receives a request: it leaves idle with its arguments bound.
Begin(p, r) ==
    /\ req[p].pc = "idle"
    /\ req' = [req EXCEPT ![p] = r]
    /\ Silent

\* A handler returns or raises: the response is recorded, the handler is idle.
Respond(p, r, status, row) ==
    /\ req' = [req EXCEPT ![p] = Idle]
    /\ resp' = [proc |-> p, op |-> r.op, pc |-> r.pc, cred |-> r.cred,
                 status |-> status,
                 player_id |-> r.player_id, game_id |-> r.game_id,
                 stats_id |-> r.stats_id, season |-> r.season,
                 body |-> r.body, row |-> row, loaded |-> r.loaded,
                 found |-> r.found, committed |-> r.committed]
    /\ last' = IF ~last.on THEN last
               ELSE IF r.op = "update_player_stats_for_game"
               THEN [on |-> TRUE, op |-> r.op, status |-> status,
                     player_id |-> r.player_id, game_id |-> r.game_id,
                     body |-> r.body]
               ELSE NoCall

\* A request is rejected before the handler body runs.
Reject(p, r, status) ==
    /\ req[p].pc = "idle"
    /\ Respond(p, r, status, NoRow)

\* db.refresh(obj) and return: re-read the instance by primary key (500 if
\* it is gone), then validate it against the route's response model.
Refresh(p, table, status) ==
    LET r == req[p] IN
    IF Get(table, r.row.id) = NoRow
    THEN Respond(p, r, 500, NoRow)
    ELSE IF ResponseValidationError(r.op, Get(table, r.row.id))
    THEN Respond(p, r, 500, NoRow)
    ELSE Respond(p, r, status, Get(table, r.row.id))

(***************************************************************************)
(* Auth gate.                                                              *)
(***************************************************************************)
\* OAuth2PasswordBearer: passes any request that carries a bearer token.
oauth2_scheme(cred) == cred # "none"

\* auth_handler.get_current_user: resolves the principal of a valid token.
get_current_user(cred) == cred = "valid"

\* auth_handler.get_password_hash: a digest of the password, not the
\* password itself.
get_password_hash(password) == <<"hash", password>>

\* auth_handler.verify_password: does the digest belong to the password.
verify_password(password, hashed) == hashed = get_password_hash(password)

\* auth_handler.create_access_token: a bearer token for the subject.
create_access_token(sub) ==
    [access_token |-> <<"token", sub>>, token_type |-> "bearer"]

(***************************************************************************)
(* Signup and login (app/routes/auth.py).  The handlers are synchronous    *)
(* and work on one session: each is a single step.                         *)
(***************************************************************************)
\* login that takes any password of a registered email.
user_login_any_password(p) ==
    \E email \in Emails, password \in Passwords :
        LET r == [Idle EXCEPT !.op = "user_login",
                              !.body = [email |-> email, password |-> password]]
            existing == {u \in user : u.email = email}
        IN /\ req[p].pc = "idle"
           /\ IF existing = {}
              THEN Respond(p, r, 401, NoRow)
              ELSE Respond(p, r, 200, create_access_token(email))
           /\ UNCHANGED <<user, player, game, player_stats, game_stats, seq, clock>>

\* POST /auth/login : user_login
user_login(p) ==
    \E email \in Emails, password \in Passwords :
        LET r == [Idle EXCEPT !.op = "user_login",
                              !.body = [email |-> email, password |-> password]]
            existing == {u \in user : u.email = email}
        IN /\ req[p].pc = "idle"
           /\ IF existing = {}
              THEN Respond(p, r, 401, NoRow)
              ELSE IF verify_password(password,
                                      (CHOOSE u \in existing : TRUE).password)
              THEN Respond(p, r, 200, create_access_token(email))
              ELSE Respond(p, r, 401, NoRow)
           /\ UNCHANGED <<user, player, game, player_stats, game_stats, seq, clock>>

\* POST /auth/signup : create_user.  The INSERT draws the next user_id and
\* fails on the unique constraint of email; the failure is answered 422.
create_user(p) ==
    \E email \in Emails, password \in Passwords :
        LET r == [Idle EXCEPT !.op = "create_user",
                              !.body = [email |-> email, password |-> password]]
            new_user == [user_id |-> seq.user, email |-> email,
                         password |-> get_password_hash(password),
                         name |-> "testname"]
        IN /\ req[p].pc = "idle"
           /\ seq.user <= MaxUserId
           /\ seq' = [seq EXCEPT !.user = @ + 1]
           /\ IF \E u \in user : u.email = email
              THEN /\ Respond(p, r, 422, NoRow)
                   /\ UNCHANGED user
              ELSE /\ user' = user \cup {new_user}
                   /\ Respond(p, [r EXCEPT !.committed = TRUE], 201,
                              [user_id |-> new_user.user_id])
           /\ UNCHANGED <<player, game, player_stats, game_stats, clock>>

(***************************************************************************)
(* Players and games (app/routes/players.py, app/routes/games.py).         *)
(***************************************************************************)
\* POST /players/ : create_player
create_player(p) ==
    \/ \E cred \in Credentials, name \in CreateNames :
         LET r == [Idle EXCEPT !.op = "create_player", !.pc = "commit",
                               !.cred = cred, !.body = [name |-> name]] IN
         IF oauth2_scheme(cred)
         THEN /\ seq.player <= MaxPlayerId
              /\ Begin(p, r)
              /\ UNCHANGED <<user, player, game, player_stats, game_stats, seq, clock>>
         ELSE /\ Reject(p, r, 401)
              /\ UNCHANGED <<user, player, game, player_stats, game_stats, seq, clock>>
    \/ /\ req[p].op = "create_player" /\ req[p].pc = "commit"
       /\ player' = player \cup {[id |-> seq.player, name |-> req[p].body.name]}
       /\ seq' = [seq EXCEPT !.player = @ + 1]
       /\ req' = [req EXCEPT ![p].pc = "refresh",
                             ![p].row = [id |-> seq.player,
                                         name |-> req[p].body.name],
                             ![p].committed = TRUE]
       /\ UNCHANGED <<user, game, player_stats, game_stats, clock>>
       /\ Silent
    \/ /\ req[p].op = "create_player" /\ req[p].pc = "refresh"
       /\ Refresh(p, player, 201)
       /\ UNCHANGED <<user, player, game, player_stats, game_stats, seq, clock>>

\* DELETE /players/{player_id} : delete_player
delete_player(p) ==
    \/ \E cred \in Credentials, id \in PlayerIds :
         LET r == [Idle EXCEPT !.op = "delete_player", !.pc = "get",
                               !.cred = cred, !.player_id = id] IN
         IF oauth2_scheme(cred)
         THEN /\ Begin(p, r)
              /\ UNCHANGED <<user, player, game, player_stats, game_stats, seq, clock>>
         ELSE /\ Reject(p, r, 401)
              /\ UNCHANGED <<user, player, game, player_stats, game_stats, seq, clock>>
    \/ /\ req[p].op = "delete_player" /\ req[p].pc = "get"
       /\ IF Get(player, req[p].player_id) = NoRow
          THEN Respond(p, req[p], 404, NoRow)
          ELSE /\ req' = [req EXCEPT ![p].pc = "commit",
                                     ![p].row = Get(player, req[p].player_id)]
               /\ Silent
       /\ UNCHANGED <<user, player, game, player_stats, game_stats, seq, clock>>
    \/ /\ req[p].op = "delete_player" /\ req[p].pc = "commit"
       /\ player' = {x \in player : x.id # req[p].row.id}
       /\ Respond(p, [req[p] EXCEPT !.committed = TRUE], 200, NoRow)
       /\ UNCHANGED <<user, game, player_stats, game_stats, seq, clock>>

\* POST /games/ : create_game
create_game(p) ==
    \/ \E cred \in Credentials, s \in Seasons :
         LET r == [Idle EXCEPT !.op = "create_game", !.pc = "commit",
                               !.cred = cred, !.season = s] IN
         IF oauth2_scheme(cred) /\ get_current_user(cred)
         THEN /\ seq.game <= MaxGameId
              /\ Begin(p, r)
              /\ UNCHANGED <<user, player, game, player_stats, game_stats, seq, clock>>
         ELSE /\ Reject(p, r, 401)
              /\ UNCHANGED <<user, player, game, player_stats, game_stats, seq, clock>>
    \/ /\ req[p].op = "create_game" /\ req[p].pc = "commit"
       /\ game' = game \cup {[id |-> seq.game, season |-> req[p].season]}
       /\ seq' = [seq EXCEPT !.game = @ + 1]
       /\ req' = [req EXCEPT ![p].pc = "refresh",
                             ![p].row = [id |-> seq.game,
                                         season |-> req[p].season],
                             ![p].committed = TRUE]
       /\ UNCHANGED <<user, player, player_stats, game_stats, clock>>
       /\ Silent
    \/ /\ req[p].op = "create_game" /\ req[p].pc = "refresh"
       /\ Refresh(p, game, 201)
       /\ UNCHANGED <<user, player, game, player_stats, game_stats, seq, clock>>

\* DELETE /games/{game_id} : delete_game
delete_game(p) ==
    \/ \E cred \in Credentials, id \in GameIds :
         LET r == [Idle EXCEPT !.op = "delete_game", !.pc = "get",
                               !.cred = cred, !.game_id = id] IN
         IF oauth2_scheme(cred)
         THEN /\ Begin(p, r)
              /\ UNCHANGED <<user, player, game, player_stats, game_stats, seq, clock>>
         ELSE /\ Reject(p, r, 401)
              /\ UNCHANGED <<user, player, game, player_stats, game_stats, seq, clock>>
    \/ /\ req[p].op = "delete_game" /\ req[p].pc = "get"
       /\ IF Get(game, req[p].game_id) = NoRow
          THEN Respond(p, req[p], 404, NoRow)
          ELSE /\ req' = [req EXCEPT ![p].pc = "commit",
                                     ![p].row = Get(game, req[p].game_id)]
               /\ Silent
       /\ UNCHANGED <<user, player, game, player_stats, game_stats, seq, clock>>
    \/ /\ req[p].op = "delete_game" /\ req[p].pc = "commit"
       /\ game' = {x \in game : x.id # req[p].row.id}
       /\ Respond(p, [req[p] EXCEPT !.committed = TRUE], 200, NoRow)
       /\ UNCHANGED <<user, player, player_stats, game_stats, seq, clock>>

(***************************************************************************)
(* Persistence of stats rows (SQLModel table classes over SQLAlchemy).     *)
(***************************************************************************)
\* PlayerStats(player_id=..., game_id=..., **kw): the table class does not
\* validate; an attribute missing from kw takes its declared default, a
\* required one without default (stats_type) stays unset, created_at comes
\* from its default_factory.
NewPlayerStats(player_id, game_id, kw, now) ==
    [c \in PlayerStatsColumns |->
        CASE c = "id" -> None
          [] c = "player_id" -> player_id
          [] c = "game_id" -> game_id
          [] c = "stats_type" ->
                IF c \in DOMAIN kw THEN kw[c] ELSE Unset
          [] c = "created_at" -> now
          [] c = "updated_at" -> None
          [] OTHER -> IF c \in DOMAIN kw THEN kw[c] ELSE Default(c)]

\* GameStats(**kw): as above; quarter_scores defaults to the empty list.  A
\* quarter_scores or timestamp that kw holds as an integer is kept in the
\* request body and rejected by the driver at flush (see TypeError below).
NewGameStats(game_id, kw, now) ==
    [c \in GameStatsColumns |->
        CASE c = "id" -> IF c \in DOMAIN kw THEN kw[c] ELSE None
          [] c = "game_id" -> game_id
          [] c = "stats_type" ->
                IF c \in DOMAIN kw THEN kw[c] ELSE Unset
          [] c = "created_at" -> IF c \in DOMAIN kw THEN None ELSE now
          [] c = "updated_at" -> None
          [] c = "quarter_scores" -> <<>>
          [] OTHER -> IF c \in DOMAIN kw THEN kw[c] ELSE Default(c)]

\* INSERT of an ORM instance: an attribute that is None is left out of the
\* statement, so the column default applies; the id comes from the sequence
\* unless the instance carries one.
Inserted(row, nextid, now) ==
    [c \in DOMAIN row |->
        CASE c = "id" -> IF row[c] = None THEN nextid ELSE row[c]
          [] c = "stats_type" -> row[c]
          [] c = "quarter_scores" -> row[c]
          [] c = "created_at" -> IF row[c] = None THEN now ELSE row[c]
          [] c = "updated_at" -> row[c]
          [] c \in {"player_id", "game_id"} -> row[c]
          [] OTHER -> IF row[c] = None THEN Default(c) ELSE row[c]]

\* The constraints the tables declare: NOT NULL on stats_type (required,
\* no default) and the primary key.  No uniqueness on the natural key.
IntegrityError(table, row) ==
    \/ row.stats_type = Unset
    \/ \E x \in table : x.id = row.id

\* The driver rejects an integer bound to a timestamp or an array column.
TypeError(changes) ==
    \E f \in {"created_at", "updated_at", "quarter_scores"} :
        f \in DOMAIN changes /\ changes[f] # None

\* setattr(row, field, value) for every item of changes.
SetAttrs(row, changes) ==
    [c \in DOMAIN row |->
        IF c \in DOMAIN changes /\ c \notin {"created_at", "updated_at",
                                             "quarter_scores"}
        THEN changes[c] ELSE row[c]]

\* The columns of the UPDATE statement: attributes whose value changed.
Dirty(loaded, row) == {c \in DOMAIN row : row[c] # loaded[c]}

\* An UPDATE that writes every column of the session's copy of the row.
UpdatedWholeRow(table, loaded, row) ==
    (table \ {Get(table, loaded.id)}) \cup {row}

\* UPDATE ... SET dirty columns WHERE id = loaded.id, on the current table.
Updated(table, loaded, row) ==
    LET cur == Get(table, loaded.id)
        new == [c \in DOMAIN cur |->
                   IF c \in Dirty(loaded, row) THEN row[c] ELSE cur[c]]
    IN (table \ {cur}) \cup {new}

\* Outcome of flushing the changes of a loaded row at commit.
UpdateFails(table, loaded, row, changes) ==
    \/ TypeError(changes)
    \/ \E c \in Dirty(loaded, row) : row[c] = None /\ c \notin Nullable
    \/ /\ Dirty(loaded, row) # {}
       /\ \/ Get(table, loaded.id) = NoRow
          \/ "id" \in Dirty(loaded, row) /\ \E x \in table : x.id = row.id

\* Handlers that may still insert into a table bound its id sequence: those
\* that have not committed and have not found a row to update instead.
Inserting(ops) ==
    Cardinality({q \in Procs : /\ req[q].op \in ops
                               /\ ~req[q].committed /\ ~req[q].found})

StoreUnchanged == UNCHANGED <<user, player, game, player_stats, game_stats, seq, clock>>

(***************************************************************************)
(* Reads and updates of players and games.                                 *)
(***************************************************************************)
\* PlayerUpdate / GameUpdate bodies: the attribute is omitted or supplied.
PlayerUpdateBodies == {NoBody} \cup {[name |-> n] : n \in UpdateNames}
GameUpdateSeasons == {NoBody} \cup {[season |-> s] : s \in Seasons}

\* The route of a partial update of a row loaded by primary key: db.get,
\* the setattr loop, commit (an UPDATE of the changed columns, which fails
\* when the row is gone), refresh.  The routes declare no auth dependency;
\* the credential the client sent is recorded, not looked at.
UpdateByKey(p, op, table, key, id, body) ==
    \/ /\ \E cred \in Credentials :
            Begin(p, [Idle EXCEPT !.op = op, !.pc = "get", !.cred = cred,
                                  ![key] = id, !.body = body])
       /\ UNCHANGED table
    \/ /\ req[p].op = op /\ req[p].pc = "get"
       /\ req[p][key] = id /\ req[p].body = body
       /\ IF Get(table, id) = NoRow
          THEN Respond(p, req[p], 404, NoRow)
          ELSE /\ req' = [req EXCEPT ![p].pc = "commit",
                                     ![p].loaded = Get(table, id),
                                     ![p].row = SetAttrs(Get(table, id), body)]
               /\ Silent
       /\ UNCHANGED table
    \/ /\ req[p].op = op /\ req[p].pc = "commit"
       /\ req[p][key] = id /\ req[p].body = body
       /\ IF Dirty(req[p].loaded, req[p].row) = {}
          THEN /\ req' = [req EXCEPT ![p].pc = "refresh"]
               /\ Silent
               /\ UNCHANGED table
          ELSE IF Get(table, req[p].loaded.id) = NoRow
          THEN /\ Respond(p, req[p], 500, NoRow)
               /\ UNCHANGED table
          ELSE /\ table' = Updated(table, req[p].loaded, req[p].row)
               /\ req' = [req EXCEPT ![p].pc = "refresh",
                                     ![p].committed = TRUE]
               /\ Silent
    \/ /\ req[p].op = op /\ req[p].pc = "refresh"
       /\ req[p][key] = id /\ req[p].body = body
       /\ Refresh(p, table, 200)
       /\ UNCHANGED table

\* PATCH /players/{player_id} : update_player
update_player(p) ==
    \E id \in PlayerIds, body \in PlayerUpdateBodies :
        /\ UpdateByKey(p, "update_player", player, "player_id", id, body)
        /\ UNCHANGED <<user, game, player_stats, game_stats, seq, clock>>

\* PATCH /games/{game_id} : update_game
update_game(p) ==
    \E id \in GameIds, body \in GameUpdateSeasons :
        /\ UpdateByKey(p, "update_game", game, "game_id", id, body)
        /\ UNCHANGED <<user, player, player_stats, game_stats, seq, clock>>

\* GET /players/{player_id} : read_player
read_player(p) ==
    \E id \in PlayerIds \cup {MaxPlayerId + 1} :
        LET r == [Idle EXCEPT !.op = "read_player", !.player_id = id] IN
        /\ req[p].pc = "idle"
        /\ IF Get(player, id) = NoRow
           THEN Respond(p, r, 404, NoRow)
           ELSE Respond(p, r, 200, Get(player, id))
        /\ StoreUnchanged

\* read_game without the NotFound branch.
read_game_unchecked(p) ==
    \E id \in GameIds \cup {MaxGameId + 1} :
        LET r == [Idle EXCEPT !.op = "read_game", !.game_id = id] IN
        /\ req[p].pc = "idle"
        /\ Respond(p, r, 200, Get(game, id))
        /\ StoreUnchanged

\* GET /games/{game_id} : read_game
read_game(p) ==
    \E id \in GameIds \cup {MaxGameId + 1} :
        LET r == [Idle EXCEPT !.op = "read_game", !.game_id = id] IN
        /\ req[p].pc = "idle"
        /\ IF Get(game, id) = NoRow
           THEN Respond(p, r, 404, NoRow)
           ELSE Respond(p, r, 200, Get(game, id))
        /\ StoreUnchanged

(***************************************************************************)
(* Stats handlers (app/routes/stats.py).                                   *)
(***************************************************************************)
PlayerStatsInserters == {"create_player_stats_for_game", "update_player_stats_for_game"}
GameStatsInserters == {"create_game_stats", "update_game_stats"}

\* db.add(row); await db.commit() of a new PlayerStats row.
CommitNewPlayerStats(p) ==
    LET row == Inserted(req[p].row, seq.player_stats, clock) IN
    IF IntegrityError(player_stats, row)
    THEN /\ Respond(p, req[p], 500, NoRow)
         /\ seq' = [seq EXCEPT !.player_stats = @ + 1]
         /\ UNCHANGED <<user, player, game, player_stats, game_stats, clock>>
    ELSE /\ player_stats' = player_stats \cup {row}
         /\ seq' = [seq EXCEPT !.player_stats = @ + 1]
         /\ req' = [req EXCEPT ![p].pc = "refresh", ![p].row = row,
                               ![p].committed = TRUE]
         /\ UNCHANGED <<user, player, game, game_stats, clock>>
         /\ Silent

\* db.add(row); await db.commit() of a new GameStats row.
CommitNewGameStats(p) ==
    LET row == Inserted(req[p].row, seq.game_stats, clock) IN
    IF TypeError(DictExcludeUnset(GameStatsUpdate, req[p].body))
    THEN /\ Respond(p, req[p], 500, NoRow)
         /\ StoreUnchanged
    ELSE IF IntegrityError(game_stats, row)
    THEN /\ Respond(p, req[p], 500, NoRow)
         /\ seq' = [seq EXCEPT !.game_stats =
                        IF req[p].row.id = None THEN @ + 1 ELSE @]
         /\ UNCHANGED <<user, player, game, player_stats, game_stats, clock>>
    ELSE /\ game_stats' = game_stats \cup {row}
         /\ seq' = [seq EXCEPT !.game_stats =
                        IF req[p].row.id = None THEN @ + 1 ELSE @]
         /\ req' = [req EXCEPT ![p].pc = "refresh", ![p].row = row,
                               ![p].committed = TRUE]
         /\ UNCHANGED <<user, player, game, player_stats, clock>>
         /\ Silent

\* POST /stats/games/{game_id}/players/{player_id}
create_player_stats_for_game(p, B) ==
    \/ \E game_id \in GameIds, player_id \in PlayerIds, body \in B :
         LET r == [Idle EXCEPT !.op = "create_player_stats_for_game",
                               !.pc = "get_player", !.player_id = player_id,
                               !.game_id = game_id, !.body = body] IN
         /\ IF PlayerStatsCreateValid(body)
            THEN /\ seq.player_stats + Inserting(PlayerStatsInserters) <= MaxStatsId
                 /\ Begin(p, r)
            ELSE Reject(p, r, 422)
         /\ StoreUnchanged
    \/ /\ req[p].op = "create_player_stats_for_game" /\ req[p].pc = "get_player"
       /\ IF Get(player, req[p].player_id) = NoRow
          THEN Respond(p, req[p], 404, NoRow)
          ELSE req' = [req EXCEPT ![p].pc = "get_game"] /\ Silent
       /\ StoreUnchanged
    \/ /\ req[p].op = "create_player_stats_for_game" /\ req[p].pc = "get_game"
       /\ IF Get(game, req[p].game_id) = NoRow
          THEN Respond(p, req[p], 404, NoRow)
          ELSE /\ req' = [req EXCEPT
                    ![p].pc = "commit",
                    ![p].row = NewPlayerStats(req[p].player_id, req[p].game_id,
                                   PlayerStatsCreateDict(req[p].body), clock)]
               /\ Silent
       /\ StoreUnchanged
    \/ /\ req[p].op = "create_player_stats_for_game" /\ req[p].pc = "commit"
       /\ CommitNewPlayerStats(p)
    \/ /\ req[p].op = "create_player_stats_for_game" /\ req[p].pc = "refresh"
       /\ Refresh(p, player_stats, 200)
       /\ StoreUnchanged

QuarterScores == {<<>>, <<1, 0>>}

\* Field constraints of GameStatsCreate.
GameStatsCreateValid(body) ==
    \A f \in DOMAIN body \ {"quarter_scores"} :
        /\ f \in GameStatsMetrics
        /\ body[f] # None
        /\ body[f] >= 0
        /\ (f = "minutes_played" => body[f] <= 48)

\* GameStats(**GameStatsCreate(**body).dict())
NewGameStatsCreate(game_id, body, now) ==
    [c \in GameStatsColumns |->
        CASE c = "id" -> None
          [] c = "game_id" -> game_id
          [] c = "stats_type" -> "game"
          [] c = "created_at" -> now
          [] c = "updated_at" -> None
          [] OTHER -> IF c \in DOMAIN body THEN body[c]
                      ELSE IF c = "quarter_scores" THEN <<>> ELSE Default(c)]

\* POST /stats/games/
create_game_stats(p, B) ==
    \/ \E game_id \in GameIds, b \in B,
          qs \in QuarterScores :
         LET body == [f \in DOMAIN b \cup {"quarter_scores"} |->
                         IF f = "quarter_scores" THEN qs ELSE b[f]]
             r == [Idle EXCEPT !.op = "create_game_stats", !.pc = "get_game",
                               !.game_id = game_id, !.body = body] IN
         /\ IF GameStatsCreateValid(body)
            THEN /\ seq.game_stats + Inserting(GameStatsInserters) <= MaxStatsId
                 /\ Begin(p, r)
            ELSE Reject(p, r, 422)
         /\ StoreUnchanged
    \/ /\ req[p].op = "create_game_stats" /\ req[p].pc = "get_game"
       /\ IF Get(game, req[p].game_id) = NoRow
          THEN Respond(p, req[p], 404, NoRow)
          ELSE /\ req' = [req EXCEPT
                    ![p].pc = "commit",
                    ![p].row = NewGameStatsCreate(req[p].game_id, req[p].body,
                                                  clock)]
               /\ Silent
       /\ StoreUnchanged
    \/ /\ req[p].op = "create_game_stats" /\ req[p].pc = "commit"
       /\ LET row == Inserted(req[p].row, seq.game_stats, clock) IN
          IF IntegrityError(game_stats, row)
          THEN /\ Respond(p, req[p], 500, NoRow)
               /\ seq' = [seq EXCEPT !.game_stats = @ + 1]
               /\ UNCHANGED <<user, player, game, player_stats, game_stats, clock>>
          ELSE /\ game_stats' = game_stats \cup {row}
               /\ seq' = [seq EXCEPT !.game_stats = @ + 1]
               /\ req' = [req EXCEPT ![p].pc = "refresh", ![p].row = row,
                                     ![p].committed = TRUE]
               /\ UNCHANGED <<user, player, game, player_stats, clock>>
               /\ Silent
    \/ /\ req[p].op = "create_game_stats" /\ req[p].pc = "refresh"
       /\ Refresh(p, game_stats, 200)
       /\ StoreUnchanged

\* select(PlayerStats).where(player_id == ...).where(game_id == ...)
SelectPlayerStats(player_id, game_id) ==
    {x \in player_stats : x.player_id = player_id /\ x.game_id = game_id}

\* select(GameStats).where(game_id == ...)
SelectGameStats(game_id) == {x \in game_stats : x.game_id = game_id}

\* Result.scalar_one_or_none() raises when more than one row matched.
MultipleResultsFound(rows) == Cardinality(rows) > 1

\* await db.commit() after the setattr loop over a loaded row.
CommitLoaded(p, table, schema) ==
    LET loaded == req[p].row
        changes == DictExcludeUnset(schema, req[p].body)
        row == SetAttrs(loaded, changes)
    IN IF UpdateFails(table, loaded, row, changes)
       THEN <<FALSE, table, row>>
       ELSE <<TRUE,
              IF Dirty(loaded, row) = {} THEN table
              ELSE Updated(table, loaded, row),
              row>>

\* PATCH /stats/players/{player_id}/games/{game_id}
update_player_stats_for_game(p, B) ==
    \/ \E player_id \in PlayerIds, game_id \in GameIds, body \in B :
         /\ seq.player_stats + Inserting(PlayerStatsInserters) <= MaxStatsId
         /\ Begin(p, [Idle EXCEPT !.op = "update_player_stats_for_game",
                                  !.pc = "get_player", !.player_id = player_id,
                                  !.game_id = game_id, !.body = body])
         /\ StoreUnchanged
    \/ /\ req[p].op = "update_player_stats_for_game" /\ req[p].pc = "get_player"
       /\ IF Get(player, req[p].player_id) = NoRow
          THEN Respond(p, req[p], 404, NoRow)
          ELSE req' = [req EXCEPT ![p].pc = "get_game"] /\ Silent
       /\ StoreUnchanged
    \/ /\ req[p].op = "update_player_stats_for_game" /\ req[p].pc = "get_game"
       /\ IF Get(game, req[p].game_id) = NoRow
          THEN Respond(p, req[p], 404, NoRow)
          ELSE req' = [req EXCEPT ![p].pc = "select"] /\ Silent
       /\ StoreUnchanged
    \/ /\ req[p].op = "update_player_stats_for_game" /\ req[p].pc = "select"
       /\ LET rows == SelectPlayerStats(req[p].player_id, req[p].game_id) IN
          IF MultipleResultsFound(rows)
          THEN Respond(p, req[p], 500, NoRow)
          ELSE IF rows = {}
          THEN /\ req' = [req EXCEPT
                    ![p].pc = "commit",
                    ![p].row = NewPlayerStats(req[p].player_id, req[p].game_id,
                                   Dict(PlayerStatsUpdate, req[p].body), clock)]
               /\ Silent
          ELSE /\ req' = [req EXCEPT ![p].pc = "commit", ![p].found = TRUE,
                                     ![p].row = CHOOSE x \in rows : TRUE,
                                     ![p].loaded = CHOOSE x \in rows : TRUE]
               /\ Silent
       /\ StoreUnchanged
    \/ /\ req[p].op = "update_player_stats_for_game" /\ req[p].pc = "commit"
       /\ IF ~req[p].found
          THEN CommitNewPlayerStats(p)
          ELSE LET c == CommitLoaded(p, player_stats, PlayerStatsUpdate) IN
               /\ IF c[1]
                  THEN /\ player_stats' = c[2]
                       /\ req' = [req EXCEPT ![p].pc = "refresh", ![p].row = c[3],
                                             ![p].committed = TRUE]
                       /\ Silent
                  ELSE /\ Respond(p, req[p], 500, NoRow)
                       /\ UNCHANGED player_stats
               /\ UNCHANGED <<user, player, game, game_stats, seq, clock>>
    \/ /\ req[p].op = "update_player_stats_for_game" /\ req[p].pc = "refresh"
       /\ Refresh(p, player_stats, 200)
       /\ StoreUnchanged

\* PATCH /stats/games/{game_id}
update_game_stats(p, B) ==
    \/ \E game_id \in GameIds, body \in B :
         /\ seq.game_stats + Inserting(GameStatsInserters) <= MaxStatsId
         /\ Begin(p, [Idle EXCEPT !.op = "update_game_stats", !.pc = "select",
                                  !.game_id = game_id, !.body = body])
         /\ StoreUnchanged
    \/ /\ req[p].op = "update_game_stats" /\ req[p].pc = "select"
       /\ LET rows == SelectGameStats(req[p].game_id) IN
          IF MultipleResultsFound(rows)
          THEN Respond(p, req[p], 500, NoRow)
          ELSE IF rows = {}
          THEN /\ req' = [req EXCEPT
                    ![p].pc = "commit",
                    ![p].row = NewGameStats(req[p].game_id,
                                   Dict(GameStatsUpdate, req[p].body), clock)]
               /\ Silent
          ELSE /\ req' = [req EXCEPT ![p].pc = "commit", ![p].found = TRUE,
                                     ![p].row = CHOOSE x \in rows : TRUE,
                                     ![p].loaded = CHOOSE x \in rows : TRUE]
               /\ Silent
       /\ StoreUnchanged
    \/ /\ req[p].op = "update_game_stats" /\ req[p].pc = "commit"
       /\ IF ~req[p].found
          THEN CommitNewGameStats(p)
          ELSE LET c == CommitLoaded(p, game_stats, GameStatsUpdate) IN
               /\ IF c[1]
                  THEN /\ game_stats' = c[2]
                       /\ req' = [req EXCEPT ![p].pc = "refresh", ![p].row = c[3],
                                             ![p].committed = TRUE]
                       /\ Silent
                  ELSE /\ Respond(p, req[p], 500, NoRow)
                       /\ UNCHANGED game_stats
               /\ UNCHANGED <<user, player, game, player_stats, seq, clock>>
    \/ /\ req[p].op = "update_game_stats" /\ req[p].pc = "refresh"
       /\ Refresh(p, game_stats, 200)
       /\ StoreUnchanged

\* PATCH /stats{stats_id}/players/{player_id}
update_player_stats(p, B) ==
    \/ \E player_id \in PlayerIds, stats_id \in StatsIds, body \in B :
         /\ Begin(p, [Idle EXCEPT !.op = "update_player_stats", !.pc = "select",
                                  !.player_id = player_id, !.stats_id = stats_id,
                                  !.body = body])
         /\ StoreUnchanged
    \/ /\ req[p].op = "update_player_stats" /\ req[p].pc = "select"
       /\ LET rows == {x \in player_stats : /\ x.id = req[p].stats_id
                                            /\ x.player_id = req[p].player_id} IN
          IF rows = {}
          THEN Respond(p, req[p], 404, NoRow)
          ELSE /\ req' = [req EXCEPT ![p].pc = "commit", ![p].found = TRUE,
                                     ![p].row = CHOOSE x \in rows : TRUE,
                                     ![p].loaded = CHOOSE x \in rows : TRUE]
               /\ Silent
       /\ StoreUnchanged
    \/ /\ req[p].op = "update_player_stats" /\ req[p].pc = "commit"
       /\ LET c == CommitLoaded(p, player_stats, PlayerStatsUpdate) IN
          /\ IF c[1]
             THEN /\ player_stats' = c[2]
                  /\ req' = [req EXCEPT ![p].pc = "refresh", ![p].row = c[3],
                                        ![p].committed = TRUE]
                  /\ Silent
             ELSE /\ Respond(p, req[p], 500, NoRow)
                  /\ UNCHANGED player_stats
          /\ UNCHANGED <<user, player, game, game_stats, seq, clock>>
    \/ /\ req[p].op = "update_player_stats" /\ req[p].pc = "refresh"
       /\ Refresh(p, player_stats, 200)
       /\ StoreUnchanged

\* DELETE /stats/games/{stats_id}
delete_game_stats(p) ==
    \/ \E stats_id \in StatsIds :
         /\ Begin(p, [Idle EXCEPT !.op = "delete_game_stats", !.pc = "get",
                                  !.stats_id = stats_id])
         /\ StoreUnchanged
    \/ /\ req[p].op = "delete_game_stats" /\ req[p].pc = "get"
       /\ IF Get(game_stats, req[p].stats_id) = NoRow
          THEN Respond(p, req[p], 404, NoRow)
          ELSE /\ req' = [req EXCEPT ![p].pc = "commit",
                                     ![p].row = Get(game_stats, req[p].stats_id)]
               /\ Silent
       /\ StoreUnchanged
    \/ /\ req[p].op = "delete_game_stats" /\ req[p].pc = "commit"
       /\ game_stats' = {x \in game_stats : x.id # req[p].row.id}
       /\ Respond(p, [req[p] EXCEPT !.committed = TRUE], 200, NoRow)
       /\ UNCHANGED <<user, player, game, player_stats, seq, clock>>

\* DELETE /stats/players/{stats_id}
delete_player_stats(p) ==
    \/ \E stats_id \in StatsIds :
         /\ Begin(p, [Idle EXCEPT !.op = "delete_player_stats", !.pc = "get",
                                  !.stats_id = stats_id])
         /\ StoreUnchanged
    \/ /\ req[p].op = "delete_player_stats" /\ req[p].pc = "get"
       /\ IF Get(player_stats, req[p].stats_id) = NoRow
          THEN Respond(p, req[p], 404, NoRow)
          ELSE /\ req' = [req EXCEPT ![p].pc = "commit",
                                     ![p].row = Get(player_stats, req[p].stats_id)]
               /\ Silent
       /\ StoreUnchanged
    \/ /\ req[p].op = "delete_player_stats" /\ req[p].pc = "commit"
       /\ player_stats' = {x \in player_stats : x.id # req[p].row.id}
       /\ Respond(p, [req[p] EXCEPT !.committed = TRUE], 200, NoRow)
       /\ UNCHANGED <<user, player, game, game_stats, seq, clock>>

\* GET /stats/players/{player_id}/games/{game_id}
get_player_stats_for_game(p) ==
    \E player_id \in PlayerIds, game_id \in GameIds :
        LET r == [Idle EXCEPT !.op = "get_player_stats_for_game",
                              !.player_id = player_id, !.game_id = game_id]
            rows == SelectPlayerStats(player_id, game_id)
            stats == CHOOSE x \in rows : TRUE
        IN /\ req[p].pc = "idle"
           /\ IF MultipleResultsFound(rows)
              THEN Respond(p, r, 500, NoRow)
              ELSE IF rows = {}
              THEN Respond(p, r, 404, NoRow)
              ELSE IF ResponseValidationError(r.op, stats)
              THEN Respond(p, r, 500, NoRow)
              ELSE Respond(p, r, 200, stats)
           /\ StoreUnchanged

\* GET /stats/games/{game_id}/full-stats
get_full_game_stats(p) ==
    \/ \E game_id \in GameIds :
         /\ Begin(p, [Idle EXCEPT !.op = "get_full_game_stats",
                                  !.pc = "get_game", !.game_id = game_id])
         /\ StoreUnchanged
    \/ /\ req[p].op = "get_full_game_stats" /\ req[p].pc = "get_game"
       /\ IF Get(game, req[p].game_id) = NoRow
          THEN Respond(p, req[p], 404, NoRow)
          ELSE /\ req' = [req EXCEPT ![p].pc = "select_team",
                                     ![p].loaded = Get(game, req[p].game_id)]
               /\ Silent
       /\ StoreUnchanged
    \/ /\ req[p].op = "get_full_game_stats" /\ req[p].pc = "select_team"
       /\ req' = [req EXCEPT
             ![p].pc = "select_players",
             ![p].row = [game |-> req[p].loaded,
                         team_stats |-> SelectGameStats(req[p].game_id)]]
       /\ Silent
       /\ StoreUnchanged
    \/ /\ req[p].op = "get_full_game_stats" /\ req[p].pc = "select_players"
       /\ LET team == req[p].row.team_stats
              content ==
                  [game |-> req[p].row.game,
                   team_stats |-> IF team = {} THEN NoRow
                                  ELSE CHOOSE x \in team : TRUE,
                   players_stats |->
                       {x \in player_stats :
                           /\ x.game_id = req[p].game_id
                           /\ \E y \in player : y.id = x.player_id}]
          IN IF MultipleResultsFound(team)
             THEN Respond(p, req[p], 500, NoRow)
             ELSE IF ResponseValidationError(req[p].op, content)
             THEN Respond(p, req[p], 500, NoRow)
             ELSE Respond(p, req[p], 200, content)
       /\ StoreUnchanged

(***************************************************************************)
(* Aggregates.                                                             *)
(***************************************************************************)
RECURSIVE SumPoints(_)
SumPoints(rows) ==
    IF rows = {} THEN 0
    ELSE LET x == CHOOSE y \in rows : TRUE IN x.points + SumPoints(rows \ {x})

MaxPoints(rows) == CHOOSE m \in {x.points : x \in rows} : \A x \in rows : x.points <= m

\* round(float(avg), 1) in tenths: the nearest tenth of total / count (a tie
\* needs count to be a multiple of 4, which goes to the even tenth when the
\* quotient is exact in binary).
Round1(total, count) ==
    LET q == (10 * total) \div count
        r == (10 * total) % count
    IN IF 2 * r < count THEN q
       ELSE IF 2 * r > count THEN q + 1
       ELSE IF q % 2 = 0 THEN q ELSE q + 1

\* AggregateScan without the season filter: every row of the player.
AggregateScanAllSeasons(player_id, season) ==
    {x \in player_stats : x.player_id = player_id}

\* The rows the aggregate statement ranges over: the player's rows, joined
\* to Game on game_id and filtered by season when `if season:` holds.
AggregateScan(player_id, season) ==
    {x \in player_stats :
        /\ x.player_id = player_id
        /\ (season # "" => \E g \in game : g.id = x.game_id /\ g.season = season)}

\* AggregateResult as a grouped query would answer: no row over zero rows.
AggregateResultGrouped(rows) ==
    IF rows = {}
    THEN <<>>
    ELSE <<[avg_points |-> Round1(SumPoints(rows), Cardinality(rows)),
            max_points |-> MaxPoints(rows),
            total_points |-> SumPoints(rows)]>>

\* SELECT avg(points), max(points), sum(points) without GROUP BY: the result
\* set is always one row, all NULL over zero rows.
AggregateResult(rows) ==
    IF rows = {}
    THEN <<[avg_points |-> None, max_points |-> None, total_points |-> None]>>
    ELSE <<[avg_points |-> Round1(SumPoints(rows), Cardinality(rows)),
            max_points |-> MaxPoints(rows),
            total_points |-> SumPoints(rows)]>>

\* `value or 0`
OrZero(v) == IF v = None THEN 0 ELSE v

\* GET /stats/players/{player_id}/aggregate
get_player_aggregates(p) ==
    \E player_id \in PlayerIds, season \in Seasons \cup {""} :
        LET r == [Idle EXCEPT !.op = "get_player_aggregates",
                              !.player_id = player_id, !.season = season]
            result == AggregateResult(AggregateScan(player_id, season))
        IN /\ req[p].pc = "idle"
           /\ IF result = <<>>
              THEN Respond(p, r, 404, NoRow)
              ELSE Respond(p, r, 200,
                     [player_id |-> player_id,
                      avg_points |-> OrZero(result[1].avg_points),
                      max_points |-> OrZero(result[1].max_points),
                      total_points |-> OrZero(result[1].total_points)])
           /\ StoreUnchanged

(***************************************************************************)
(* Specification.                                                          *)
(***************************************************************************)
\* One request at a time: the handler that serves it.
Sequential == {1}

\* Players, games and player statistics, one request at a time.
Next ==
    \/ \E p \in Sequential : create_player(p)
    \/ \E p \in Sequential : delete_player(p)
    \/ \E p \in Sequential : create_game(p)
    \/ \E p \in Sequential : delete_game(p)
    \/ \E p \in Sequential : create_player_stats_for_game(p, CreateBodies)
    \/ \E p \in Sequential : update_player_stats_for_game(p, UpdateBodies)
    \/ \E p \in Sequential : update_player_stats(p, UpdateBodies)
    \/ \E p \in Sequential : delete_player_stats(p)
    \/ \E p \in Sequential : get_player_aggregates(p)

Spec == Init /\ [][Next]_vars

\* Games and game statistics, one request at a time.
NextGame ==
    \/ Tick
    \/ \E p \in Sequential : create_game(p)
    \/ \E p \in Sequential : delete_game(p)
    \/ \E p \in Sequential : create_game_stats(p, GameCreateBodies)
    \/ \E p \in Sequential : update_game_stats(p, GameUpdateBodies)
    \/ \E p \in Sequential : delete_game_stats(p)

SpecGame == Init /\ [][NextGame]_vars

\* Players and games only: every route that reads or writes one of them.
NextAdmin ==
    \/ \E p \in Sequential : create_player(p)
    \/ \E p \in Sequential : read_player(p)
    \/ \E p \in Sequential : update_player(p)
    \/ \E p \in Sequential : delete_player(p)
    \/ \E p \in Sequential : create_game(p)
    \/ \E p \in Sequential : read_game(p)
    \/ \E p \in Sequential : update_game(p)
    \/ \E p \in Sequential : delete_game(p)

SpecAdmin == Init /\ [][NextAdmin]_vars

\* The tables once every player and game id has been created.
Populated ==
    /\ user = {}
    /\ player = {[id |-> i, name |-> n] : i \in PlayerIds, n \in CreateNames}
    /\ game \in {g \in SUBSET [id : GameIds, season : Seasons] :
                    \A i \in GameIds : Cardinality({x \in g : x.id = i}) = 1}
    /\ player_stats = {}
    /\ game_stats = {}
    /\ seq = [user |-> 1, player |-> MaxPlayerId + 1, game |-> MaxGameId + 1,
              player_stats |-> 1, game_stats |-> 1]
    /\ clock = 0
    /\ req = [p \in Procs |-> Idle]
    /\ resp = NoResp

\* Concurrent writers of player statistics.
InitRace == Populated /\ last = NoHistory

NextRace ==
    \/ \E p \in Procs : create_player_stats_for_game(p, {NoBody})
    \/ \E p \in Procs : update_player_stats_for_game(p, RaceBodies)

SpecRace == InitRace /\ [][NextRace]_vars

\* Writers of player statistics, one request at a time, with the history of
\* the previous upsert.
InitUpsert == Populated /\ last = NoCall

NextUpsert ==
    \/ \E p \in Sequential : create_player_stats_for_game(p, CreateBodies)
    \/ \E p \in Sequential : update_player_stats_for_game(p, UpsertBodies)
    \/ \E p \in Sequential : delete_player_stats(p)

SpecUpsert == InitUpsert /\ [][NextUpsert]_vars

\* Every write path of player statistics, one request at a time, with
\* bodies that supply a shot count or the fouls.
NextValidate ==
    \/ \E p \in Sequential : create_player_stats_for_game(p, ShotBodies)
    \/ \E p \in Sequential : update_player_stats_for_game(p, ShotBodies)
    \/ \E p \in Sequential : update_player_stats(p, ShotBodies)

SpecValidate == InitRace /\ [][NextValidate]_vars

\* Statistics of stored players and games, and the full report of a game.
NextFull ==
    \/ \E p \in Sequential : create_game_stats(p, {NoBody})
    \/ \E p \in Sequential : create_player_stats_for_game(p, {NoBody})
    \/ \E p \in Sequential : delete_player(p)
    \/ \E p \in Sequential : delete_game(p)
    \/ \E p \in Sequential : get_full_game_stats(p)

SpecFull == InitRace /\ [][NextFull]_vars

\* Creating, reading and deleting player statistics, one request at a time.
NextCreateGet ==
    \/ \E p \in Sequential : create_player_stats_for_game(p, CreateBodies)
    \/ \E p \in Sequential : get_player_stats_for_game(p)
    \/ \E p \in Sequential : delete_player_stats(p)

SpecCreateGet == InitRace /\ [][NextCreateGet]_vars

\* Aggregates over the statistics of stored players, with games of either
\* season that may be deleted.
NextSeason ==
    \/ \E p \in Sequential : create_player_stats_for_game(p, CreateBodies)
    \/ \E p \in Sequential : delete_game(p)
    \/ \E p \in Sequential : get_player_aggregates(p)

SpecSeason == InitRace /\ [][NextSeason]_vars

\* Writers of player statistics while players and games are deleted, one
\* request at a time.
NextNotFound ==
    \/ \E p \in Sequential : delete_player(p)
    \/ \E p \in Sequential : delete_game(p)
    \/ \E p \in Sequential : create_player_stats_for_game(p, {NoBody})
    \/ \E p \in Sequential : update_player_stats_for_game(p, RaceBodies)

SpecNotFound == InitRace /\ [][NextNotFound]_vars

\* Concurrent upserts once create_player_stats_for_game has stored the row
\* of player 1 in game 1 (empty body, clock 0), with the history of the
\* upsert answered last.
InitMerge ==
    /\ user = {}
    /\ player = {[id |-> i, name |-> n] : i \in PlayerIds, n \in CreateNames}
    /\ game = {[id |-> i, season |-> "2023-2024"] : i \in GameIds}
    /\ player_stats =
          {Inserted(NewPlayerStats(1, 1, PlayerStatsCreateDict(NoBody), 0), 1, 0)}
    /\ game_stats = {}
    /\ seq = [user |-> 1, player |-> MaxPlayerId + 1, game |-> MaxGameId + 1,
              player_stats |-> 2, game_stats |-> 1]
    /\ clock = 0
    /\ req = [p \in Procs |-> Idle]
    /\ resp = NoResp
    /\ last = NoCall

NextMerge ==
    \E p \in Procs : update_player_stats_for_game(p, RaceBodies)

SpecMerge == InitMerge /\ [][NextMerge]_vars

\* Writers of player statistics while players and games are deleted
\* concurrently.
NextOrphan ==
    \/ \E p \in Procs : delete_player(p)
    \/ \E p \in Procs : delete_game(p)
    \/ \E p \in Procs : create_player_stats_for_game(p, {NoBody})
    \/ \E p \in Procs : update_player_stats_for_game(p, {NoBody})

SpecOrphan == InitRace /\ [][NextOrphan]_vars

\* Signup and login.
NextAuth ==
    \/ \E p \in Sequential : create_user(p)
    \/ \E p \in Sequential : user_login(p)

SpecAuth == Init /\ [][NextAuth]_vars

(***************************************************************************)
(* Properties.                                                             *)
(***************************************************************************)
Upsert == "update_player_stats_for_game"
Create == "create_player_stats_for_game"

\* C1: the store holds at most one PlayerStats row for each
\* (player_id, game_id) pair.
C1_OneRowPerPlayerAndGame ==
    \A x, y \in player_stats :
        (x.player_id = y.player_id /\ x.game_id = y.game_id) => x = y

\* C2: when two upsert_player_stats calls race on one (player_id, game_id)
\* for which both saw no row, the one that answers first answers with the
\* created row or with a Conflict (409), never with an untranslated error,
\* and at most one row for the pair is stored.
C2_RacingUpsertsResolve ==
    \A q \in Procs :
        ( /\ resp.op = Upsert /\ resp.pc = "commit" /\ ~resp.found
          /\ q # resp.proc
          /\ req[q].op = Upsert /\ req[q].pc = "commit" /\ ~req[q].found
          /\ req[q].player_id = resp.player_id
          /\ req[q].game_id = resp.game_id )
        => /\ resp.status \in {200, 409}
           /\ Cardinality(SelectPlayerStats(resp.player_id, resp.game_id)) <= 1

\* C3: create_player_stats for a pair that already has a row answers with a
\* Conflict (409) and stores no second row.
C3_CreateOnExistingConflicts ==
    ( /\ resp.op = Create
      /\ resp.status \notin {404, 422}
      /\ \E x \in SelectPlayerStats(resp.player_id, resp.game_id) :
            x.id # resp.row.id )
    => /\ resp.status = 409
       /\ Cardinality(SelectPlayerStats(resp.player_id, resp.game_id)) = 1

\* C4: the store holds at most one GameStats row for each game_id.
C4_OneRowPerGame ==
    \A x, y \in game_stats : x.game_id = y.game_id => x = y

\* The answer to a create or an upsert whose player or game is absent.
C5_NotFound ==
    ( /\ resp.op \in {Create, Upsert}
      /\ resp.status # 422
      /\ \/ ~\E x \in player : x.id = resp.player_id
         \/ ~\E x \in game : x.id = resp.game_id )
    => resp.status = 404 /\ ~resp.committed

\* C5: create_player_stats and upsert_player_stats with a well-formed body
\* and a player_id or game_id that is not in the store answer NotFound (404),
\* have committed nothing, and the answering step leaves the PlayerStats
\* rows as they were.
C5_NotFoundWritesNothing ==
    [](C5_NotFound)
    /\ [][(resp'.op \in {Create, Upsert} /\ resp'.status = 404)
              => player_stats' = player_stats]_vars

\* C5 witness: an upsert whose player exists and whose game does not was
\* answered with 404.
C5_Witness ==
    /\ resp.op = Upsert /\ resp.status = 404
    /\ \E x \in player : x.id = resp.player_id
    /\ ~\E x \in game : x.id = resp.game_id

\* C6: upsert_game_stats for a game_id with no Game row answers NotFound
\* (404) and writes nothing.
C6_UpsertGameStatsNotFound ==
    (resp.op = "update_game_stats" /\ Get(game, resp.game_id) = NoRow)
    => resp.status = 404 /\ ~resp.committed

\* C7: an upsert on a key with no row creates the row: it answers with a
\* stored row that holds the key, the supplied value of every supplied field
\* and the default (0, empty quarter_scores) of every other field.
C7_UpsertCreatesWithDefaults ==
    (resp.op = "update_game_stats" /\ resp.pc # "select" /\ ~resp.found)
    => /\ resp.status = 200
       /\ resp.row \in game_stats
       /\ resp.row.game_id = resp.game_id
       /\ \A f \in {"team_points", "opponent_points"} :
             resp.row[f] = IF f \in DOMAIN resp.body THEN resp.body[f]
                           ELSE Default(f)
       /\ ("quarter_scores" \notin DOMAIN resp.body
              => resp.row.quarter_scores = <<>>)

\* C8: an upsert on a key whose row exists overwrites exactly the supplied
\* fields, points included (also with the value 0), and leaves the other
\* fields of the row as they were.
C8_UpsertOverwritesSupplied ==
    (resp.op = Upsert /\ resp.found /\ resp.status = 200)
    => \A f \in PlayerStatsMetrics :
          resp.row[f] = IF f \in DOMAIN resp.body THEN resp.body[f]
                        ELSE resp.loaded[f]

\* C9: two consecutive upsert_player_stats calls on one pair of an existing
\* player and game, with field sets A then B, leave one row for the pair in
\* which every field of B holds B's value and every field of A that is not
\* in B holds A's value, whether or not a row existed before the first call.
C9_UpsertTwiceIsUnion ==
    [][( /\ resp'.op = Upsert /\ resp'.status # 404
         /\ last.on /\ last.op = Upsert /\ last.status # 404
         /\ last.player_id = resp'.player_id
         /\ last.game_id = resp'.game_id )
       => /\ resp'.status = 200
          /\ {x \in player_stats' : /\ x.player_id = resp'.player_id
                                    /\ x.game_id = resp'.game_id}
                = {resp'.row}
          /\ \A f \in DOMAIN resp'.body : resp'.row[f] = resp'.body[f]
          /\ \A f \in DOMAIN last.body \ DOMAIN resp'.body :
                resp'.row[f] = last.body[f]]_vars

C11_Rows ==
    {x \in player_stats :
        /\ x.player_id = resp.player_id
        /\ \/ resp.season = ""
           \/ \E g \in game : g.id = x.game_id /\ g.season = resp.season}

C13_Mutating ==
    {"create_player", "update_player", "delete_player",
     "create_game", "update_game", "delete_game"}

\* C13: a create, update or delete of a player or a game that was called
\* with no bearer credential or with an invalid one is answered with an
\* authorization failure (401) and has written nothing.
C13_MutationsNeedCredential ==
    (resp.op \in C13_Mutating /\ resp.cred # "valid")
    => resp.status = 401 /\ ~resp.committed

\* C18: read_game / read_player of an id answers 200 with the record stored
\* under that id exactly when such a record is stored, else NotFound (404);
\* a create answered 201 has stored the record it returns; and a stored
\* record leaves the store only through the commit of delete_game /
\* delete_player.
C18_Reads ==
    /\ resp.op = "read_game"
         => IF \E g \in game : g.id = resp.game_id
            THEN resp.status = 200 /\ resp.row \in game
                 /\ resp.row.id = resp.game_id
            ELSE resp.status = 404
    /\ resp.op = "read_player"
         => IF \E x \in player : x.id = resp.player_id
            THEN resp.status = 200 /\ resp.row \in player
                 /\ resp.row.id = resp.player_id
            ELSE resp.status = 404
    /\ (resp.op = "create_game" /\ resp.status = 201) => resp.row \in game
    /\ (resp.op = "create_player" /\ resp.status = 201) => resp.row \in player

C12_MadeAtMostAttempted ==
    \A x \in player_stats :
        /\ x.field_goals_made <= x.field_goals_attempted
        /\ x.three_points_made <= x.three_points_attempted
        /\ x.free_throws_made <= x.free_throws_attempted

\* C14: an upsert (of player or of game statistics) that found a row and
\* succeeded has set the row's updated_at: it is not null and not earlier
\* than created_at or than its previous value.
C14_UpsertSetsUpdatedAt ==
    ( /\ resp.op \in {Upsert, "update_game_stats"}
      /\ resp.found /\ resp.status = 200 )
    => /\ resp.row.updated_at # None
       /\ resp.row.updated_at >= resp.row.created_at
       /\ resp.row.updated_at >= resp.loaded.updated_at

\* C15: an upsert_game_stats that found a row and succeeded has left the
\* row's id, game_id and created_at as they were, whatever the body.
C15_GameUpsertKeepsIdentity ==
    ( /\ resp.op = "update_game_stats"
      /\ resp.found /\ resp.status = 200 )
    => /\ resp.row.id = resp.loaded.id
       /\ resp.row.game_id = resp.loaded.game_id
       /\ resp.row.created_at = resp.loaded.created_at

C17_FullGameStats ==
    resp.op = "get_full_game_stats"
    => IF ~\E g \in game : g.id = resp.game_id
       THEN resp.status = 404
       ELSE /\ resp.status = 200
            /\ resp.row.game \in game
            /\ resp.row.game.id = resp.game_id
            /\ IF SelectGameStats(resp.game_id) = {}
               THEN resp.row.team_stats = NoRow
               ELSE resp.row.team_stats \in SelectGameStats(resp.game_id)
            /\ resp.row.players_stats =
                   {x \in player_stats : x.game_id = resp.game_id}

GetStats == "get_player_stats_for_game"

\* What C19 says of single answers: a create with valid fields for a stored
\* player and game succeeds, the row it returns is stored and holds every
\* supplied metric (the default where none was supplied), and a get for a
\* pair without row answers NotFound (404).
C19_Answers ==
    /\ ( /\ resp.op = Create
         /\ PlayerStatsCreateValid(resp.body)
         /\ \E x \in player : x.id = resp.player_id
         /\ \E g \in game : g.id = resp.game_id )
       => resp.status = 200
    /\ (resp.op = Create /\ resp.status = 200)
       => /\ resp.row \in player_stats
          /\ resp.row.player_id = resp.player_id
          /\ resp.row.game_id = resp.game_id
          /\ \A f \in PlayerStatsMetrics :
                resp.row[f] = IF f \in DOMAIN resp.body THEN resp.body[f]
                              ELSE 0
    /\ ( /\ resp.op = GetStats
         /\ ~\E x \in player_stats : /\ x.player_id = resp.player_id
                                     /\ x.game_id = resp.game_id )
       => resp.status = 404

C20_Answers ==
    /\ resp.op = "user_login"
         => IF \E u \in user :
                  /\ u.email = resp.body.email
                  /\ verify_password(resp.body.password, u.password)
            THEN resp.status = 200 /\ resp.row.token_type = "bearer"
            ELSE resp.status = 401
    /\ \A u, v \in user : u.email = v.email => u = v

\* C20: a signup answered 201 has registered its email with its password,
\* and registered users stay as they are, so a later login with the same
\* email and password succeeds; a login with an unregistered email or a
\* wrong password is answered 401; a signup with a registered email is
\* answered 422 and adds no user; at most one user exists per email.
C20_SignupThenLogin ==
    /\ [](C20_Answers)
    /\ [][/\ user \subseteq user'
          /\ resp'.op = "create_user"
               => IF \E u \in user : u.email = resp'.body.email
                  THEN resp'.status = 422 /\ user' = user
                  ELSE /\ resp'.status = 201
                       /\ \E u \in user' :
                            /\ u.email = resp'.body.email
                            /\ verify_password(resp'.body.password,
                                               u.password)]_vars

\* C20 witness: a login with the registered password succeeded for an
\* email that a second signup was refused for.
C20_Witness ==
    /\ resp.op = "user_login" /\ resp.status = 200
    /\ \E u \in user : u.email = resp.body.email
    /\ seq.user > Cardinality(user) + 1

C22_StatsRowNeedsPlayerAndGame ==
    [][\A x \in player_stats' :
          (\A y \in player_stats : y.id # x.id)
          => /\ \E y \in player' : y.id = x.player_id
             /\ \E g \in game' : g.id = x.game_id]_vars

====
